---- MODULE Spec2Model ----
(***************************************************************************)
(* Model of the Gemini key-rotating prompt server (src/main.py).           *)
(*                                                                         *)
(* One FastAPI process serves /generate with coroutines on one event loop. *)
(* A request runs atomically between its suspension points, which are the  *)
(* upstream call (main.py:172) and the sleeps (main.py:177,221,230,234).   *)
(* The SMTP send and the sqlite calls are synchronous: they never yield.   *)
(***************************************************************************)
EXTENDS Integers, Sequences, FiniteSets, TLC

(* ------------------------------ bounds -------------------------------- *)
MaxKeys == 2
MaxBudget == 3
NumRequests == 2
MaxClock == 2
MaxWalkKeys == 3

Requests == 1..NumRequests
KeyIndices == 1..MaxKeys

(* --------------------------- configuration ---------------------------- *)
\* Status codes the upstream answers with: one per branch of generate, and
\* both members of the (401, 403) test.
Statuses == {200, 429, 401, 403, 503, 404}

\* Serialized response bodies (body_str of main.py:199), as character
\* sequences: one that holds a rate-limit keyword in mixed case, one that
\* holds none.
BodyText == << <<"Q", "u", "o", "t", "a">>, <<"o", "o", "p", "s">> >>
Bodies == 1..Len(BodyText)

\* The pool, the watched indices and the budget are fixed when the process
\* starts. The pool is bounded by MaxKeys here, so the watched indices range
\* over the subsets of 1..MaxKeys (main.py:32 ships {5, 8, 10}: some keys of
\* a pool are watched, others are not) and the budget over 0..MaxBudget.
VARIABLES
    GEMINI_KEYS,                   \* the key pool, main.py:20
    WATCH_KEYS_INDICES,            \* the watched key indices, main.py:32
    MAX_TOTAL_RETRIES_PER_PROMPT,  \* the retry budget, main.py:36
    key_notifications,             \* the sqlite table, main.py:52-55
    now,                           \* the last reading of datetime.utcnow()
    task,                          \* per request: the locals of generate
    response,                      \* per request: what the caller receives
    hist,                          \* per request: what the request has done
    delivered,                     \* per key index: alerts delivered so far
    observe                        \* whether hist records every answer

vars == <<GEMINI_KEYS, WATCH_KEYS_INDICES, MAX_TOTAL_RETRIES_PER_PROMPT,
          key_notifications, now, task, response, hist, delivered, observe>>

config == <<GEMINI_KEYS, WATCH_KEYS_INDICES, MAX_TOTAL_RETRIES_PER_PROMPT,
            observe>>

(* ------------------------------ helpers ------------------------------- *)
RECURSIVE Pow(_, _)
Pow(b, e) == IF e = 0 THEN 1 ELSE b * Pow(b, e - 1)

\* str.lower() on the characters the bodies use
Lower(c) ==
    CASE c = "Q" -> "q"
      [] c = "R" -> "r"
      [] c = "L" -> "l"
      [] OTHER -> c

lower(s) == [k \in 1..Len(s) |-> Lower(s[k])]

\* Python's `sub in s`
Contains(sub, s) ==
    \E k \in 0..(Len(s) - Len(sub)) :
        \A j \in 1..Len(sub) : s[k + j] = sub[j]

RateLimitKeywords ==
    { <<"r", "a", "t", "e", "l", "i", "m", "i", "t">>,
      <<"r", "a", "t", "e", " ", "l", "i", "m", "i", "t">>,
      <<"r", "a", "t", "e", "l", "i", "m", "i", "t", "e", "x", "c", "e", "e", "d", "e", "d">>,
      <<"q", "u", "o", "t", "a">> }

\* main.py:200-201: the keyword scan of the lower-cased body, per body
HasKeyword ==
    [b \in Bodies |-> \E kw \in RateLimitKeywords : Contains(kw, lower(BodyText[b]))]

\* the rate-limit test without the scan of the body
is_rate_limit_status_only(status, body) == status = 429

\* main.py:193-202
is_rate_limit(status, body) ==
    IF status = 429 THEN TRUE ELSE HasKeyword[body]

\* a backoff whose exponent is the number of attempts made
Backoff_exponent_total_attempts(n) ==
    [kind |-> "backoff", num |-> Pow(3, n), den |-> Pow(2, n)]

\* BASE_BACKOFF_SECONDS * (1.5 ** (total_attempts - 1)), as the fraction
\* num/den of the base; main.py:177,221,234
Backoff(n) == [kind |-> "backoff", num |-> Pow(3, n - 1), den |-> Pow(2, n - 1)]

\* asyncio.sleep(0.2), main.py:230
AuthDelay == [kind |-> "fixed", num |-> 1, den |-> 5]

NoDelay == [kind |-> "none", num |-> 0, den |-> 1]

\* the values of last_error
NoError == [kind |-> "None", idx |-> 0, status |-> 0, body |-> 0]
NetworkError(i) == [kind |-> "RequestError", idx |-> i, status |-> 0, body |-> 0]
RateLimitError(i) == [kind |-> "RateLimit", idx |-> i, status |-> 0, body |-> 0]
StatusError(s, b) == [kind |-> "Status", idx |-> 0, status |-> s, body |-> b]

\* the values of response
NoResponse ==
    [kind |-> "none", status_code |-> 0, key_used_index |-> 0, error |-> NoError]
NotConfigured ==
    [kind |-> "NotConfigured", status_code |-> 500, key_used_index |-> 0,
     error |-> NoError]
\* a success that reports the 0-based position of the key
Succeeded_zero_based(i) ==
    [kind |-> "Succeeded", status_code |-> 200, key_used_index |-> i - 1,
     error |-> NoError]

Succeeded(i) ==
    [kind |-> "Succeeded", status_code |-> 200, key_used_index |-> i,
     error |-> NoError]
\* a failure that carries no error text
Exhausted_without_last_error(e) ==
    [kind |-> "Exhausted", status_code |-> 502, key_used_index |-> 0,
     error |-> NoError]

Exhausted(e) ==
    [kind |-> "Exhausted", status_code |-> 502, key_used_index |-> 0, error |-> e]

(* ------------------------------ ledger -------------------------------- *)
\* get_notified_keys that reads no row
get_notified_keys_reads_nothing == {}

\* main.py:61-67
get_notified_keys == {row.key_index : row \in key_notifications}

\* mark_key_notified that never commits its insert
mark_key_notified_uncommitted(key_index, utcnow) == key_notifications

\* mark_key_notified as a plain INSERT on a table without primary key
mark_key_notified_appends(key_index, utcnow) ==
    key_notifications \cup {[key_index |-> key_index, notified_at |-> utcnow]}

\* main.py:69-78: INSERT OR REPLACE on the primary key key_index
mark_key_notified(key_index, utcnow) ==
    {row \in key_notifications : row.key_index /= key_index}
        \cup {[key_index |-> key_index, notified_at |-> utcnow]}

\* main.py:99-119: False when SMTP or the recipient is missing, False when
\* the transport raises, True when the message went out
send_warning_email(smtp) == smtp = "sent"

SmtpOutcomes == {"unconfigured", "raises", "sent"}

\* the key indices the table holds, whatever their timestamps
LedgerIndices == {row.key_index : row \in key_notifications}

(* ------------------------------- Init --------------------------------- *)
\* what the awaited upstream call gives back: nothing yet, an HTTP answer
\* (any status is an answer), or httpx.RequestError
NoAnswer == [kind |-> "none", status |-> 0, body |-> 0]
HttpAnswer(s, b) == [kind |-> "http", status |-> s, body |-> b]
RequestError == [kind |-> "error", status |-> 0, body |-> 0]

IdleTask == [pc |-> "idle", idx |-> 0, total_attempts |-> 0,
             last_error |-> NoError, notified_keys |-> {}, delay |-> NoDelay,
             resp |-> NoAnswer]

\* What a request has done so far: the key indices of its upstream calls,
\* its calls of send_warning_email, its sleeps, the ledger it started on, the
\* indices whose alert had failed before it started, the
\* indices it found rate-limited (and those among them that were watched and
\* absent from the ledger at that moment), whether every answer so far
\* had status 429 and, when observe is set, the answers in their order.
NoHist == [calls |-> <<>>, alerts |-> <<>>, sleeps |-> <<>>,
           ledgerAtStart |-> {}, unsentAtStart |-> {}, limited |-> {},
           fresh |-> {}, all429 |-> TRUE, answers |-> <<>>]

\* the key indices for which some call of send_warning_email returned False
Unsent ==
    {i \in DOMAIN delivered :
        \E r \in Requests : \E k \in DOMAIN hist[r].alerts :
            hist[r].alerts[k].idx = i /\ ~hist[r].alerts[k].sent}

\* The table survives restarts (CREATE TABLE IF NOT EXISTS, main.py:47-59):
\* the process starts on an empty ledger or on records of earlier runs.
Init ==
    /\ GEMINI_KEYS \in {[k \in 1..n |-> k] : n \in 0..MaxKeys}
    /\ WATCH_KEYS_INDICES \in SUBSET KeyIndices
    /\ MAX_TOTAL_RETRIES_PER_PROMPT \in 0..MaxBudget
    /\ key_notifications \in
         {{[key_index |-> i, notified_at |-> 0] : i \in S} :
            S \in SUBSET WATCH_KEYS_INDICES}
    /\ now = 1
    /\ task = [r \in Requests |-> IdleTask]
    /\ response = [r \in Requests |-> NoResponse]
    /\ hist = [r \in Requests |-> NoHist]
    /\ delivered = [i \in KeyIndices |-> 0]
    /\ observe = FALSE

\* One request on a pool of up to MaxWalkKeys keys, every answer recorded.
InitWalk ==
    /\ GEMINI_KEYS \in {[k \in 1..n |-> k] : n \in 0..MaxWalkKeys}
    /\ WATCH_KEYS_INDICES \in SUBSET (1..MaxWalkKeys)
    /\ MAX_TOTAL_RETRIES_PER_PROMPT \in 0..MaxBudget
    /\ key_notifications \in
         {{[key_index |-> i, notified_at |-> 0] : i \in S} :
            S \in SUBSET WATCH_KEYS_INDICES}
    /\ now = 1
    /\ task = [r \in Requests |-> IdleTask]
    /\ response = [r \in Requests |-> NoResponse]
    /\ hist = [r \in Requests |-> NoHist]
    /\ delivered = [i \in 1..MaxWalkKeys |-> 0]
    /\ observe = TRUE

(* ------------------------------ generate ------------------------------ *)
\* the empty-pool test left out
NoKeys_never == FALSE

\* main.py:153
NoKeys == GEMINI_KEYS = <<>>

\* the budget test with > for >=
BudgetSpent_off_by_one(total_attempts) ==
    total_attempts > MAX_TOTAL_RETRIES_PER_PROMPT

\* main.py:166
BudgetSpent(total_attempts) == total_attempts >= MAX_TOTAL_RETRIES_PER_PROMPT

\* a loop that goes back to the first key after the last one, as long as
\* budget is left
LoopHead_wraps(r, i, t, h) ==
    IF BudgetSpent(t.total_attempts)
    THEN /\ task' = [task EXCEPT ![r] = [t EXCEPT !.pc = "done", !.delay = NoDelay]]
         /\ response' = [response EXCEPT ![r] = Exhausted(t.last_error)]
         /\ hist' = [hist EXCEPT ![r] = h]
    ELSE LET j == ((i - 1) % Len(GEMINI_KEYS)) + 1
         IN /\ task' = [task EXCEPT ![r] =
                          [t EXCEPT !.pc = "call", !.idx = j, !.delay = NoDelay,
                                    !.total_attempts = t.total_attempts + 1]]
            /\ hist' = [hist EXCEPT ![r] = [h EXCEPT !.calls = Append(h.calls, j)]]
            /\ UNCHANGED response

\* The head of the for loop for key index i (main.py:164-172) and, when the
\* loop is left, the raise after it (main.py:241-242).
LoopHead(r, i, t, h) ==
    IF i > Len(GEMINI_KEYS) \/ BudgetSpent(t.total_attempts)
    THEN /\ task' = [task EXCEPT ![r] = [t EXCEPT !.pc = "done", !.delay = NoDelay]]
         /\ response' = [response EXCEPT ![r] = Exhausted(t.last_error)]
         /\ hist' = [hist EXCEPT ![r] = h]
    ELSE /\ task' = [task EXCEPT ![r] =
                        [t EXCEPT !.pc = "call", !.idx = i, !.delay = NoDelay,
                                  !.total_attempts = t.total_attempts + 1]]
         /\ hist' = [hist EXCEPT ![r] = [h EXCEPT !.calls = Append(h.calls, i)]]
         /\ UNCHANGED response

\* main.py:153-172: a request arrives; requests are numbered in their order
\* of arrival
Start(r) ==
    /\ task[r].pc = "idle"
    /\ \A q \in Requests : q < r => task[q].pc /= "idle"
    /\ IF NoKeys
       THEN /\ task' = [task EXCEPT ![r].pc = "done"]
            /\ response' = [response EXCEPT ![r] = NotConfigured]
            /\ UNCHANGED hist
       ELSE LoopHead(r, 1,
                [task[r] EXCEPT !.notified_keys = get_notified_keys],
                [hist[r] EXCEPT !.ledgerAtStart = LedgerIndices,
                                !.unsentAtStart = Unsent])
    /\ UNCHANGED <<config, key_notifications, now, delivered>>

\* main.py:142-144, 172: the awaited call completes, with an HTTP answer
\* or with httpx.RequestError, and the coroutine is ready to resume
Respond(r, answer) ==
    /\ task[r].pc = "call"
    /\ task' = [task EXCEPT ![r].pc = "resume", ![r].resp = answer]
    /\ hist' = [hist EXCEPT ![r].all429 = @ /\ answer.status = 429,
                            ![r].answers = IF observe THEN Append(@, answer)
                                                      ELSE @]
    /\ UNCHANGED <<config, key_notifications, now, response, delivered>>

\* the retry test 500 <= status widened to 400 <= status
Verdict_retries_4xx(status, body) ==
    IF 200 <= status /\ status < 300 THEN "Success"
    ELSE IF is_rate_limit(status, body) THEN "RateLimited"
    ELSE IF status \in {401, 403} THEN "AuthFailure"
    ELSE IF 400 <= status /\ status < 600 THEN "ServerError"
    ELSE "OtherFailure"

\* The branch generate takes on an HTTP answer, main.py:188-238
Verdict(status, body) ==
    IF 200 <= status /\ status < 300 THEN "Success"
    ELSE IF is_rate_limit(status, body) THEN "RateLimited"
    ELSE IF status \in {401, 403} THEN "AuthFailure"
    ELSE IF 500 <= status /\ status < 600 THEN "ServerError"
    ELSE "OtherFailure"

\* request r resumes on an HTTP answer that generate treats as v
Resumes(r, v) ==
    /\ task[r].pc = "resume"
    /\ task[r].resp.kind = "http"
    /\ Verdict(task[r].resp.status, task[r].resp.body) = v

\* main.py:173-178: the upstream call raised httpx.RequestError
TransportError(r) ==
    /\ task[r].pc = "resume"
    /\ task[r].resp.kind = "error"
    /\ LET t == task[r]
           d == Backoff(t.total_attempts)
       IN /\ task' = [task EXCEPT ![r] =
                        [t EXCEPT !.pc = "sleep", !.delay = d, !.resp = NoAnswer,
                                  !.last_error = NetworkError(t.idx)]]
          /\ hist' = [hist EXCEPT ![r].sleeps = Append(@, d)]
    /\ UNCHANGED <<config, key_notifications, now, response, delivered>>

\* main.py:188-190
Success(r) ==
    /\ Resumes(r, "Success")
    /\ task' = [task EXCEPT ![r].pc = "done", ![r].resp = NoAnswer]
    /\ response' = [response EXCEPT ![r] = Succeeded(task[r].idx)]
    /\ UNCHANGED <<config, key_notifications, now, hist, delivered>>

\* the alert test that looks at no watch set
ShouldAlert_unwatched(idx, notified_keys) == idx \notin notified_keys

\* the alert test that never passes
ShouldAlert_never(idx, notified_keys) == FALSE

\* main.py:208: the test that guards the alert
ShouldAlert(idx, notified_keys) ==
    idx \in WATCH_KEYS_INDICES /\ idx \notin notified_keys

\* the mark left for later, past the sleep
LedgerAfterAlert_marks_later(idx, sent, utcnow) == key_notifications

\* the mark made whatever send_warning_email returned
LedgerAfterAlert_marks_always(idx, sent, utcnow) ==
    mark_key_notified(idx, utcnow)

\* main.py:216-219: the ledger after send_warning_email returned `sent`
LedgerAfterAlert(idx, sent, utcnow) ==
    IF sent THEN mark_key_notified(idx, utcnow) ELSE key_notifications

\* main.py:204-222; utcnow is the clock reading of main.py:72, never earlier
\* than the last one
RateLimited(r, smtp, utcnow) ==
    /\ Resumes(r, "RateLimited")
    /\ LET t == task[r]
           d == Backoff(t.total_attempts)
           alert == ShouldAlert(t.idx, t.notified_keys)
           sent == alert /\ send_warning_email(smtp)
           isFresh == t.idx \in WATCH_KEYS_INDICES /\ t.idx \notin LedgerIndices
       IN /\ (~alert => smtp = "unconfigured")
          /\ IF sent THEN utcnow >= now ELSE utcnow = now
          /\ task' = [task EXCEPT ![r] =
                        [t EXCEPT !.pc = "sleep", !.delay = d, !.resp = NoAnswer,
                                  !.last_error = RateLimitError(t.idx)]]
          /\ key_notifications' =
                IF alert THEN LedgerAfterAlert(t.idx, sent, utcnow)
                         ELSE key_notifications
          /\ now' = utcnow
          /\ delivered' =
                IF sent THEN [delivered EXCEPT ![t.idx] = @ + 1] ELSE delivered
          /\ hist' = [hist EXCEPT ![r] =
                [@ EXCEPT
                   !.alerts = IF alert
                              THEN Append(@, [idx |-> t.idx, sent |-> sent])
                              ELSE @,
                   !.limited = @ \cup {t.idx},
                   !.fresh = IF isFresh THEN @ \cup {t.idx} ELSE @,
                   !.sleeps = Append(@, d)]]
    /\ UNCHANGED <<config, response>>

\* main.py:225-231
AuthFailure(r) ==
    /\ Resumes(r, "AuthFailure")
    /\ task' = [task EXCEPT ![r] =
                  [@ EXCEPT !.pc = "sleep", !.delay = AuthDelay, !.resp = NoAnswer,
                            !.last_error = StatusError(task[r].resp.status, task[r].resp.body)]]
    /\ hist' = [hist EXCEPT ![r].sleeps = Append(@, AuthDelay)]
    /\ UNCHANGED <<config, key_notifications, now, response, delivered>>

\* main.py:225-226, 233-235
ServerError(r) ==
    /\ Resumes(r, "ServerError")
    /\ LET d == Backoff(task[r].total_attempts)
       IN /\ task' = [task EXCEPT ![r] =
                        [@ EXCEPT !.pc = "sleep", !.delay = d, !.resp = NoAnswer,
                                  !.last_error = StatusError(task[r].resp.status, task[r].resp.body)]]
          /\ hist' = [hist EXCEPT ![r].sleeps = Append(@, d)]
    /\ UNCHANGED <<config, key_notifications, now, response, delivered>>

\* main.py:225-226, 238, 241-242: any other status leaves the loop
OtherFailure(r) ==
    /\ Resumes(r, "OtherFailure")
    /\ LET e == StatusError(task[r].resp.status, task[r].resp.body)
       IN /\ task' = [task EXCEPT ![r] =
                        [@ EXCEPT !.pc = "done", !.resp = NoAnswer, !.last_error = e]]
          /\ response' = [response EXCEPT ![r] = Exhausted(e)]
    /\ UNCHANGED <<config, key_notifications, now, hist, delivered>>

\* a sleep that leaves the request where it is
Wake_stays_asleep(r) ==
    /\ task[r].pc = "sleep"
    /\ UNCHANGED vars

\* the sleep returns and `continue` takes the loop to the next key
Wake(r) ==
    /\ task[r].pc = "sleep"
    /\ LoopHead(r, task[r].idx + 1, task[r], hist[r])
    /\ UNCHANGED <<config, key_notifications, now, delivered>>

Answers == {HttpAnswer(s, b) : s \in Statuses, b \in Bodies} \cup {RequestError}

Next ==
    \/ \E r \in Requests : Start(r)
    \/ \E r \in Requests, a \in Answers : Respond(r, a)
    \/ \E r \in Requests : TransportError(r)
    \/ \E r \in Requests : Success(r)
    \/ \E r \in Requests, m \in SmtpOutcomes, u \in 1..MaxClock : RateLimited(r, m, u)
    \/ \E r \in Requests : AuthFailure(r)
    \/ \E r \in Requests : ServerError(r)
    \/ \E r \in Requests : OtherFailure(r)
    \/ \E r \in Requests : Wake(r)

Spec == Init /\ [][Next]_vars

\* The caller goes away while the request is suspended in the upstream call
\* (main.py:172) or in a sleep (main.py:177,221,230,234): the await raises
\* CancelledError, which no handler of generate catches, and nothing more of
\* the request runs.
Cancel(r) ==
    /\ task[r].pc \in {"call", "resume", "sleep"}
    /\ task' = [task EXCEPT ![r].pc = "cancelled", ![r].resp = NoAnswer]
    /\ UNCHANGED <<config, key_notifications, now, response, hist, delivered>>

NextCancel ==
    \/ Next
    \/ \E r \in Requests : Cancel(r)

CancelSpec == Init /\ [][NextCancel]_vars

\* the steps of the first request alone
NextWalk ==
    \/ Start(1)
    \/ \E a \in Answers : Respond(1, a)
    \/ TransportError(1)
    \/ Success(1)
    \/ \E m \in SmtpOutcomes, u \in 1..MaxClock : RateLimited(1, m, u)
    \/ AuthFailure(1)
    \/ ServerError(1)
    \/ OtherFailure(1)
    \/ Wake(1)

WalkSpec == InitWalk /\ [][NextWalk]_vars

\* The awaited call returns and the sleep ends: every step of a request
\* that has started is taken in the end. Arrivals are not forced.
WalkFairness ==
    /\ WF_vars(\E a \in Answers : Respond(1, a))
    /\ WF_vars(TransportError(1) \/ Success(1) \/ AuthFailure(1)
                 \/ ServerError(1) \/ OtherFailure(1)
                 \/ \E m \in SmtpOutcomes, u \in 1..MaxClock : RateLimited(1, m, u))
    /\ WF_vars(Wake(1))

LiveWalkSpec == InitWalk /\ [][NextWalk]_vars /\ WalkFairness

(* ------------------------- stated properties ------------------------- *)
\* how often request r has called send_warning_email for key index i
AlertCount(r, i) ==
    Cardinality({k \in DOMAIN hist[r].alerts : hist[r].alerts[k].idx = i})

\* request r's alert for key index i was delivered
AlertDelivered(r, i) ==
    \E k \in DOMAIN hist[r].alerts :
        hist[r].alerts[k].idx = i /\ hist[r].alerts[k].sent

\* C1: over any number of generate requests on the same ledger, sequential
\* or interleaved at the upstream call and the sleeps, the alert for a key
\* index is delivered (send returns true) at most once.
C1_AlertDeliveredAtMostOnce ==
    \A i \in KeyIndices : delivered[i] <= 1

\* C2: when a request finds a key index rate-limited that is watched and
\* not in the ledger at that moment, the request calls the Alert Emitter for
\* it exactly once, and if that call reports delivery the ledger holds the
\* index in that state and in every later one.
C2_FirstSightingAlertsOnceAndMarks ==
    \A r \in Requests : \A i \in hist[r].fresh :
        /\ AlertCount(r, i) = 1
        /\ AlertDelivered(r, i) => i \in LedgerIndices

C2_Witness ==
    \E r \in Requests : \E i \in hist[r].fresh :
        /\ AlertDelivered(r, i)
        /\ task[r].pc = "done"
        /\ \E q \in Requests : q /= r /\ task[q].pc = "done" /\ i \in hist[q].limited

\* C3: when the ledger holds watched index i as a request starts, that
\* request finding key i rate-limited calls the Alert Emitter zero times and
\* leaves the ledger as it is, sleeps the backoff, and on waking goes on to
\* key i+1 (to Exhausted when there is no key i+1 or no budget is left).
C3_NotifiedIndexIsNotAlertedAgain ==
    [][\A r \in Requests :
          LET i == task[r].idx
          IN (i \in WATCH_KEYS_INDICES /\ i \in hist[r].ledgerAtStart) =>
               /\ (i \in hist'[r].limited /\ i \notin hist[r].limited) =>
                     /\ hist'[r].alerts = hist[r].alerts
                     /\ key_notifications' = key_notifications
                     /\ delivered' = delivered
                     /\ task'[r].pc = "sleep"
                     /\ task'[r].delay = Backoff(Len(hist[r].calls))
               /\ (task[r].pc = "sleep" /\ i \in hist[r].limited
                        /\ task'[r] /= task[r]) =>
                     IF i < Len(GEMINI_KEYS)
                          /\ Len(hist[r].calls) < MAX_TOTAL_RETRIES_PER_PROMPT
                     THEN /\ task'[r].pc = "call"
                          /\ task'[r].idx = i + 1
                          /\ hist'[r].calls = Append(hist[r].calls, i + 1)
                     ELSE /\ task'[r].pc = "done"
                          /\ response'[r].kind = "Exhausted"
      ]_vars

C3_Witness ==
    \E r \in Requests :
        /\ Len(hist[r].calls) = 2
        /\ hist[r].calls[1] \in WATCH_KEYS_INDICES
        /\ hist[r].calls[1] \in hist[r].ledgerAtStart
        /\ hist[r].calls[1] \in hist[r].limited
        /\ hist[r].calls[2] = hist[r].calls[1] + 1
        /\ AlertCount(r, hist[r].calls[1]) = 0

\* C4: a request never issues more upstream calls than the retry budget,
\* whatever the pool size and the answers; the calls of all keys count
\* against the one budget.
C4_CallsWithinRetryBudget ==
    \A r \in Requests : Len(hist[r].calls) <= MAX_TOTAL_RETRIES_PER_PROMPT

C4_Witness ==
    \E r \in Requests :
        /\ MAX_TOTAL_RETRIES_PER_PROMPT >= 1
        /\ Len(hist[r].calls) = MAX_TOTAL_RETRIES_PER_PROMPT
        /\ MAX_TOTAL_RETRIES_PER_PROMPT < Len(GEMINI_KEYS)
        /\ Len(hist[r].sleeps) = Len(hist[r].calls)
        /\ response[r].kind = "Exhausted"

\* the key index of the latest upstream call of request r
LastCall(r) == hist[r].calls[Len(hist[r].calls)]

\* request r takes a step
Steps(r) ==
    task'[r] /= task[r] \/ hist'[r] /= hist[r] \/ response'[r] /= response[r]

\* request r is resuming on an HTTP answer
Resuming(r) == task[r].pc = "resume" /\ task[r].resp.kind = "http"

\* C5: when the upstream call with key i returns a status in [200,300), the
\* request ends Succeeded with key_used_index = i, and from then on it
\* issues no upstream call, sleeps no more and alerts no more; no call was
\* made with a key index above i.
C5_SuccessEndsTheWalk ==
    /\ [](\A r \in Requests : response[r].kind = "Succeeded" =>
             /\ task[r].pc = "done"
             /\ response[r].key_used_index = LastCall(r)
             /\ \A k \in DOMAIN hist[r].calls :
                   hist[r].calls[k] <= response[r].key_used_index)
    /\ [][\A r \in Requests :
            /\ (Resuming(r) /\ Steps(r)
                  /\ 200 <= task[r].resp.status /\ task[r].resp.status < 300) =>
                  /\ response'[r].kind = "Succeeded"
                  /\ response'[r].key_used_index = LastCall(r)
                  /\ hist'[r] = hist[r]
                  /\ key_notifications' = key_notifications
            /\ response[r].kind = "Succeeded" =>
                  /\ hist'[r] = hist[r]
                  /\ response'[r] = response[r]
                  /\ task'[r] = task[r]
         ]_vars

C5_Witness ==
    \E r \in Requests :
        /\ response[r].kind = "Succeeded"
        /\ response[r].key_used_index < Len(GEMINI_KEYS)
        /\ Len(hist[r].calls) < MAX_TOTAL_RETRIES_PER_PROMPT

\* C6: with an empty key pool every request ends NotConfigured, having
\* issued no upstream call, no alert and no sleep, and the ledger is never
\* changed.
C6_EmptyPoolIsNotConfigured ==
    /\ [](Len(GEMINI_KEYS) = 0 =>
            \A r \in Requests : task[r].pc /= "idle" =>
                /\ task[r].pc = "done"
                /\ response[r].kind = "NotConfigured"
                /\ hist[r].calls = <<>>
                /\ hist[r].alerts = <<>>
                /\ hist[r].sleeps = <<>>)
    /\ [][Len(GEMINI_KEYS) = 0 => key_notifications' = key_notifications]_vars

C6_Witness ==
    /\ Len(GEMINI_KEYS) = 0
    /\ key_notifications /= {}
    /\ \A r \in Requests : response[r].kind = "NotConfigured"

\* the keywords the classifier scans the body for
ClassifierKeywords ==
    { <<"r", "a", "t", "e", "l", "i", "m", "i", "t">>,
      <<"r", "a", "t", "e", " ", "l", "i", "m", "i", "t">>,
      <<"q", "u", "o", "t", "a">> }

\* the answer is an OtherFailure: not 2xx, 429, 401, 403 or 5xx, and no
\* keyword in the body, whatever its case
IsOtherFailure(answer) ==
    /\ answer.kind = "http"
    /\ ~(200 <= answer.status /\ answer.status < 300)
    /\ answer.status \notin {429, 401, 403}
    /\ ~(500 <= answer.status /\ answer.status < 600)
    /\ \A kw \in ClassifierKeywords : ~Contains(kw, lower(BodyText[answer.body]))

\* C7: an OtherFailure answer for key i takes the request to Exhausted at
\* once: it issues no further upstream call, sleeps no more and alerts no
\* more, whatever keys and budget remain.
C7_OtherFailureEndsTheWalk ==
    [][\A r \in Requests :
         /\ (Resuming(r) /\ Steps(r) /\ IsOtherFailure(task[r].resp)) =>
               /\ task'[r].pc = "done"
               /\ response'[r].kind = "Exhausted"
               /\ hist'[r] = hist[r]
               /\ key_notifications' = key_notifications
         /\ response[r].kind = "Exhausted" =>
               /\ hist'[r] = hist[r]
               /\ response'[r] = response[r]
               /\ task'[r] = task[r]
      ]_vars

C7_Witness ==
    \E r \in Requests :
        /\ response[r].kind = "Exhausted"
        /\ response[r].error.kind = "Status"
        /\ response[r].error.status = 404
        /\ LastCall(r) < Len(GEMINI_KEYS)
        /\ Len(hist[r].calls) < MAX_TOTAL_RETRIES_PER_PROMPT
        /\ hist[r].sleeps = <<>>

\* The scenario of C8: pool = [k1], WatchSet = {1}, budget 3, one request,
\* started on an empty ledger, that got 429 for every call and has ended.
C8_Scenario(r) ==
    /\ Len(GEMINI_KEYS) = 1
    /\ WATCH_KEYS_INDICES = {1}
    /\ MAX_TOTAL_RETRIES_PER_PROMPT = 3
    /\ hist[r].ledgerAtStart = {}
    /\ \A q \in Requests : q /= r => task[q].pc = "idle"
    /\ hist[r].all429
    /\ task[r].pc = "done"

\* C8 as stated: in the scenario the request makes exactly one alert
\* attempt and reaches Exhausted only after 3 upstream attempts.
C8_ExhaustedAfterThreeAttempts ==
    \A r \in Requests : C8_Scenario(r) =>
        /\ response[r].kind = "Exhausted"
        /\ Len(hist[r].alerts) = 1
        /\ Len(hist[r].calls) = 3

\* C8, amended: in the scenario the request makes exactly one alert attempt
\* and reaches Exhausted after exactly one upstream attempt, the single key
\* being tried once.
C8_ExhaustedAfterOneAttempt ==
    \A r \in Requests : C8_Scenario(r) =>
        /\ response[r].kind = "Exhausted"
        /\ response[r].error = RateLimitError(1)
        /\ Len(hist[r].alerts) = 1
        /\ AlertCount(r, 1) = 1
        /\ hist[r].calls = <<1>>

C8_Witness ==
    \E r \in Requests : C8_Scenario(r) /\ response[r].kind = "Exhausted"

\* C9: once the ledger holds a record for a key index, that record, with
\* its notified_at, is in the ledger in every later state.
C9_RecordNeverUpdated ==
    [][\A row \in key_notifications : row \in key_notifications']_vars

\* request r calls send_warning_email in this step and gets False
AlertFails(r) ==
    /\ Len(hist'[r].alerts) = Len(hist[r].alerts) + 1
    /\ ~hist'[r].alerts[Len(hist'[r].alerts)].sent

\* C10: when send_warning_email returns False for watched index i, the
\* ledger is left as it is, the caller is told nothing, and the request goes
\* on as a rate-limited request without alert does: same sleep, same next
\* key; and a request that starts after the failure, on a ledger that still
\* lacks i, and finds i rate-limited calls send_warning_email again.
C10_AlertFailureOnlySkipsTheMark ==
    /\ [][\A r \in Requests : AlertFails(r) =>
            /\ key_notifications' = key_notifications
            /\ delivered' = delivered
            /\ response'[r] = response[r]
            /\ task'[r] = [task[r] EXCEPT
                              !.pc = "sleep",
                              !.resp = NoAnswer,
                              !.delay = Backoff(Len(hist[r].calls)),
                              !.last_error = RateLimitError(LastCall(r))]
            /\ hist'[r].sleeps = Append(hist[r].sleeps, Backoff(Len(hist[r].calls)))
            /\ hist'[r].calls = hist[r].calls
         ]_vars
    /\ [](\A r \in Requests :
            \A i \in (hist[r].unsentAtStart \cap hist[r].limited) \ hist[r].ledgerAtStart :
                AlertCount(r, i) = 1)

C10_Witness ==
    \E r \in Requests :
        \E i \in (hist[r].unsentAtStart \cap hist[r].limited) \ hist[r].ledgerAtStart :
            /\ AlertCount(r, i) = 1
            /\ task[r].pc = "done"

\* the body of the answer holds one of the classifier's keywords,
\* whatever its case
BodyHasKeyword(answer) ==
    \E kw \in ClassifierKeywords : Contains(kw, lower(BodyText[answer.body]))

\* classify as the design states it: the status decides first, the body is
\* scanned only when the status is none of 2xx, 429, 401, 403, 5xx
SpecClassify(answer) ==
    IF answer.kind = "error" THEN "TransportError"
    ELSE IF 200 <= answer.status /\ answer.status < 300 THEN "Success"
    ELSE IF answer.status = 429 THEN "RateLimited"
    ELSE IF answer.status \in {401, 403} THEN "AuthFailure"
    ELSE IF 500 <= answer.status /\ answer.status < 600 THEN "ServerError"
    ELSE IF BodyHasKeyword(answer) THEN "RateLimited"
    ELSE "OtherFailure"

\* classify with the body scanned on every status that is neither 2xx nor
\* 429, before the tests for 401, 403 and 5xx
ScanFirstClassify(answer) ==
    IF answer.kind = "error" THEN "TransportError"
    ELSE IF 200 <= answer.status /\ answer.status < 300 THEN "Success"
    ELSE IF answer.status = 429 THEN "RateLimited"
    ELSE IF BodyHasKeyword(answer) THEN "RateLimited"
    ELSE IF answer.status \in {401, 403} THEN "AuthFailure"
    ELSE IF 500 <= answer.status /\ answer.status < 600 THEN "ServerError"
    ELSE "OtherFailure"

\* send_warning_email is called in this step of request r
AlertsNow(r) == Len(hist'[r].alerts) = Len(hist[r].alerts) + 1

\* this step of request r is what the controller does on verdict v
ActsAs(r, v) ==
    CASE v = "Success" ->
            /\ task'[r].pc = "done"
            /\ response'[r].kind = "Succeeded"
            /\ hist'[r].alerts = hist[r].alerts
      [] v = "RateLimited" ->
            /\ task'[r].pc = "sleep"
            /\ task'[r].delay.kind = "backoff"
            /\ task'[r].last_error = RateLimitError(LastCall(r))
            /\ LastCall(r) \in hist'[r].limited
            /\ AlertsNow(r) <=>
                  LastCall(r) \in WATCH_KEYS_INDICES \ hist[r].ledgerAtStart
      [] v = "AuthFailure" ->
            /\ task'[r].pc = "sleep"
            /\ task'[r].delay = [kind |-> "fixed", num |-> 1, den |-> 5]
            /\ task'[r].last_error.kind = "Status"
            /\ hist'[r].alerts = hist[r].alerts
            /\ hist'[r].limited = hist[r].limited
      [] v = "ServerError" ->
            /\ task'[r].pc = "sleep"
            /\ task'[r].delay.kind = "backoff"
            /\ task'[r].last_error.kind = "Status"
            /\ hist'[r].alerts = hist[r].alerts
            /\ hist'[r].limited = hist[r].limited
      [] v = "TransportError" ->
            /\ task'[r].pc = "sleep"
            /\ task'[r].delay.kind = "backoff"
            /\ task'[r].last_error.kind = "RequestError"
            /\ hist'[r].alerts = hist[r].alerts
            /\ hist'[r].limited = hist[r].limited
      [] OTHER ->
            /\ task'[r].pc = "done"
            /\ response'[r].kind = "Exhausted"
            /\ hist'[r].alerts = hist[r].alerts

\* C11 as stated: the controller acts on the design's classify for every
\* answer: 401 and 403 are AuthFailure and 5xx is ServerError whatever the
\* body holds, the body being scanned on no such answer.
C11_ActsOnStatusFirstClassify ==
    [][\A r \in Requests :
          (task[r].pc = "resume" /\ Steps(r)) => ActsAs(r, SpecClassify(task[r].resp))
      ]_vars

\* C11, amended: the controller acts on classify with the body scanned on
\* every answer that is neither 2xx nor 429: a 401, 403 or 5xx answer whose
\* body holds a keyword is RateLimited (backoff, alert when watched), and it
\* is AuthFailure or ServerError only when the body holds none.
C11_ActsOnScanFirstClassify ==
    [][\A r \in Requests :
          (task[r].pc = "resume" /\ Steps(r)) =>
              ActsAs(r, ScanFirstClassify(task[r].resp))
      ]_vars

C11_Witness ==
    \E r \in Requests :
        /\ Len(hist[r].answers) = 1
        /\ hist[r].answers[1].kind = "http"
        /\ hist[r].answers[1].status \in {401, 403}
        /\ BodyHasKeyword(hist[r].answers[1])
        /\ task[r].pc = "sleep"
        /\ task[r].delay.kind = "backoff"
        /\ hist[r].limited = {1}
        /\ Len(hist[r].alerts) = 1

\* the error text the design records for an attempt on key idx that was
\* answered by answer
ErrorOf(answer, idx) ==
    IF answer.kind = "error" THEN NetworkError(idx)
    ELSE IF ScanFirstClassify(answer) = "RateLimited" THEN RateLimitError(idx)
    ELSE StatusError(answer.status, answer.body)

\* the last answer request r received
LastAnswer(r) == hist[r].answers[Len(hist[r].answers)]

\* C12: a request that ends Exhausted after at least one attempt returns one
\* failure, whose status code is not that of NotConfigured and whose error
\* is the error of the last attempt it made; nothing is returned while the
\* walk goes on, and what is returned never changes.
C12_ExhaustedCarriesLastError ==
    /\ [](\A r \in Requests :
            /\ task[r].pc /= "done" => response[r] = NoResponse
            /\ (response[r].kind = "Exhausted" /\ hist[r].answers /= <<>>) =>
                  /\ response[r].status_code /= NotConfigured.status_code
                  /\ Len(hist[r].answers) = Len(hist[r].calls)
                  /\ response[r].error = ErrorOf(LastAnswer(r), LastCall(r)))
    /\ [][\A r \in Requests :
            response[r] /= NoResponse => response'[r] = response[r]]_vars

C12_Witness ==
    \E r \in Requests :
        /\ response[r].kind = "Exhausted"
        /\ Len(hist[r].answers) = 2
        /\ hist[r].answers[1].kind = "http"
        /\ hist[r].answers[1].status = 503
        /\ hist[r].answers[2].kind = "error"
        /\ response[r].error = NetworkError(2)

\* the delay request r slept before its attempt n
SleptBefore(r, n) == hist[r].sleeps[n - 1]

\* C13 as stated: the backoff slept before attempt n, n >= 2, is the base
\* times 3^(n-1) / 2^(n-1), whatever failure came before it.
C13_BackoffExponentIsAttemptMinusOne ==
    \A r \in Requests : \A n \in 2..Len(hist[r].calls) :
        SleptBefore(r, n).kind = "backoff" =>
            /\ SleptBefore(r, n).num = Pow(3, n - 1)
            /\ SleptBefore(r, n).den = Pow(2, n - 1)

\* C13, amended: the backoff slept before attempt n, n >= 2, is the base
\* times 3^(n-2) / 2^(n-2), whatever failure came before it: the exponent
\* is the number of attempts made so far, less one.
C13_BackoffExponentIsAttemptMinusTwo ==
    \A r \in Requests : \A n \in 2..Len(hist[r].calls) :
        SleptBefore(r, n).kind = "backoff" =>
            /\ SleptBefore(r, n).num = Pow(3, n - 2)
            /\ SleptBefore(r, n).den = Pow(2, n - 2)

C13_Witness ==
    \E r \in Requests :
        /\ Len(hist[r].calls) = 3
        /\ Len(hist[r].answers) >= 2
        /\ hist[r].answers[1].kind = "http"
        /\ hist[r].answers[1].status = 401
        /\ hist[r].answers[2].kind = "error"
        /\ SleptBefore(r, 2).kind = "fixed"
        /\ SleptBefore(r, 3) = [kind |-> "backoff", num |-> 3, den |-> 2]

\* the outcomes the design follows by a backoff sleep
BackoffOutcomes == {"TransportError", "RateLimited", "ServerError"}

\* the pool of three keys answering 429, 503, 200, keys 1 and 2 unwatched
C14_Scenario(r) ==
    /\ Len(GEMINI_KEYS) = 3
    /\ WATCH_KEYS_INDICES \cap {1, 2} = {}
    /\ Len(hist[r].answers) = 3
    /\ \A k \in 1..3 : hist[r].answers[k].kind = "http"
    /\ hist[r].answers[1].status = 429
    /\ hist[r].answers[2].status = 503
    /\ hist[r].answers[3].status = 200

\* C14: every TransportError, RateLimited or ServerError outcome is followed
\* by one backoff sleep, and by no more before the next key is called; no
\* alert is emitted for an index outside the watch set; three keys answering
\* 429, 503, 200 with keys 1 and 2 unwatched give a success with
\* key_used_index = 3, exactly two backoff sleeps and no alert.
C14_OneBackoffAfterEachRetryableOutcome ==
    \A r \in Requests :
        /\ Len(hist[r].sleeps) <= Len(hist[r].answers)
        /\ Len(hist[r].calls) <= Len(hist[r].sleeps) + 1
        /\ (task[r].pc \in {"sleep", "done"} /\ hist[r].answers /= <<>>) =>
              (ScanFirstClassify(LastAnswer(r)) \in BackoffOutcomes =>
                   Len(hist[r].sleeps) = Len(hist[r].answers))
        /\ \A k \in 1..Len(hist[r].sleeps) :
              hist[r].sleeps[k].kind = "backoff" <=>
                  ScanFirstClassify(hist[r].answers[k]) \in BackoffOutcomes
        /\ \A k \in 1..Len(hist[r].alerts) :
              hist[r].alerts[k].idx \in WATCH_KEYS_INDICES
        /\ (C14_Scenario(r) /\ task[r].pc = "done") =>
              /\ response[r].kind = "Succeeded"
              /\ response[r].key_used_index = 3
              /\ Len(hist[r].sleeps) = 2
              /\ \A k \in 1..2 : hist[r].sleeps[k].kind = "backoff"
              /\ hist[r].alerts = <<>>

C14_Witness ==
    \E r \in Requests :
        /\ C14_Scenario(r)
        /\ task[r].pc = "done"
        /\ response[r].key_used_index = 3
        /\ Len(hist[r].sleeps) = 2

\* C15: the key indices of the upstream calls of a request are 1, 2, 3, ...
\* in this order and without gaps, so no key is called twice and the calls
\* are at most as many as the pool has keys; a request whose call of the
\* last key failed makes no further call and goes to Exhausted.
C15_WalkIsForwardAndNeverWraps ==
    /\ [](\A r \in Requests :
            /\ \A k \in 1..Len(hist[r].calls) : hist[r].calls[k] = k
            /\ Len(hist[r].calls) <= Len(GEMINI_KEYS))
    /\ [][\A r \in Requests :
            (task[r].pc \in {"resume", "sleep"} /\ Steps(r)
               /\ task[r].idx = Len(GEMINI_KEYS)) =>
                  /\ hist'[r].calls = hist[r].calls
                  /\ task'[r].pc = "sleep" \/ response'[r].kind \in {"Succeeded", "Exhausted"}
                  /\ task[r].pc = "sleep" => response'[r].kind = "Exhausted"]_vars

C15_Witness ==
    \E r \in Requests :
        /\ Len(GEMINI_KEYS) = 2
        /\ MAX_TOTAL_RETRIES_PER_PROMPT > 2
        /\ hist[r].calls = <<1, 2>>
        /\ Len(hist[r].sleeps) = 2
        /\ response[r].kind = "Exhausted"

\* C16: when request r finds key i rate-limited while the ledger holds a
\* record for i at that moment, whoever wrote it and whenever, r does not
\* call send_warning_email.
C16_AlertDecisionReadsTheLedgerOfTheMoment ==
    [][\A r \in Requests :
          (Resuming(r) /\ Steps(r)
             /\ is_rate_limit(task[r].resp.status, task[r].resp.body)
             /\ task[r].idx \in LedgerIndices) =>
                hist'[r].alerts = hist[r].alerts
      ]_vars

\* the three ways a request ends
Outcomes == {"NotConfigured", "Succeeded", "Exhausted"}

\* C17: when every upstream call and every sleep returns, a request that
\* has arrived ends, in one of NotConfigured, Succeeded and Exhausted, and
\* stays there; it is in none of them before it ends.
C17_RequestTerminates ==
    /\ \A r \in {1} :
          task[r].pc /= "idle" ~>
              (task[r].pc = "done" /\ response[r].kind \in Outcomes)
    /\ [](\A r \in {1} : task[r].pc /= "done" => response[r].kind \notin Outcomes)
    /\ [][\A r \in {1} : task[r].pc = "done" => task'[r] = task[r]]_vars

C17_Witness ==
    /\ task[1].pc = "done"
    /\ response[1].kind = "Exhausted"
    /\ hist[1].calls = <<1, 2, 3>>
    /\ Len(hist[1].sleeps) = 3
    /\ \A k \in 1..3 : hist[1].sleeps[k].kind = "backoff"

\* request r is suspended, or was cancelled while it was
AtSuspensionPoint(r) == task[r].pc \in {"call", "resume", "sleep", "cancelled"}

\* C18: whenever a request is suspended in the upstream call or in a sleep,
\* and so whenever it is cancelled there, every key index whose alert this
\* request delivered is in the ledger, and every ledger record holds an index
\* and a timestamp; a cancellation changes nothing in the ledger.
C18_NoPartialLedgerStateAtSuspension ==
    /\ [](\A r \in Requests : AtSuspensionPoint(r) =>
            /\ \A i \in KeyIndices : AlertDelivered(r, i) => i \in LedgerIndices
            /\ \A row \in key_notifications :
                  /\ DOMAIN row = {"key_index", "notified_at"}
                  /\ row.key_index \in KeyIndices
                  /\ row.notified_at \in 0..MaxClock)
    /\ [][\A r \in Requests :
            (task[r].pc /= "cancelled" /\ task'[r].pc = "cancelled") =>
                key_notifications' = key_notifications]_vars

C18_Witness ==
    \E r \in Requests : \E row \in key_notifications :
        /\ task[r].pc = "cancelled"
        /\ hist[r].sleeps /= <<>>
        /\ AlertDelivered(r, row.key_index)
        /\ row.notified_at >= 1

\* the process started on an empty ledger: the clock starts at 1, so the
\* records of earlier runs are those of time 0, and no step removes them
StartedEmpty == \A row \in key_notifications : row.notified_at >= 1

\* C19: when the process started on an empty ledger, the key indices in the
\* ledger are watched indices of keys of the pool, and no index has two
\* records; and, whatever the ledger started on, no step takes an index out
\* of it.
C19_LedgerWithinWatchedPoolAndGrowing ==
    /\ [](StartedEmpty =>
            /\ LedgerIndices \subseteq
                  (WATCH_KEYS_INDICES \cap (1..Len(GEMINI_KEYS)))
            /\ \A a, b \in key_notifications :
                  a.key_index = b.key_index => a = b)
    /\ [][LedgerIndices \subseteq LedgerIndices']_vars

C19_Witness ==
    \E i \in KeyIndices :
        /\ StartedEmpty
        /\ delivered[i] = 2
        /\ Cardinality({row \in key_notifications : row.key_index = i}) = 1
        /\ Cardinality(LedgerIndices) = 2

(* ------------------------------ typing -------------------------------- *)
TypeOK ==
    /\ Len(GEMINI_KEYS) \in 0..Len(delivered)
    /\ WATCH_KEYS_INDICES \subseteq DOMAIN delivered
    /\ now \in 1..MaxClock
    /\ \A r \in Requests :
          /\ task[r].pc \in {"idle", "call", "resume", "sleep", "done", "cancelled"}
          /\ task[r].idx \in 0..Len(GEMINI_KEYS)
          /\ response[r].kind \in {"none", "NotConfigured", "Succeeded", "Exhausted"}
====
